---- MODULE Spec2Model ----
(***************************************************************************)
(* Model of db/queries/base.py (DBQuery, InitialColumn, JoinParams and the *)
(* construction of the initial relation) and of mathesar/utils/preview.py  *)
(* (the recursive resolution of foreign-key previews).                     *)
(***************************************************************************)
EXTENDS Integers, Sequences, FiniteSets, TLC

VARIABLES
    \* ---- db/queries/base.py ----
    pc,                     \* position of the DBQuery life cycle
    initial_columns,        \* DBQuery.initial_columns (constructor argument)
    transformations,        \* DBQuery.transformations (constructor argument)
    idx,                    \* number of initial columns the loop has processed
    nested_join,            \* _get_initial_relation: nested_join
    sa_columns_to_select,   \* _get_initial_relation: sa_columns_to_select
    alias_count,            \* number of anonymous aliases Table.alias() has made
    joins_built,            \* number of calls of sqlalchemy.join() so far
    sa_relation,            \* DBQuery.sa_relation once built
    error,                  \* the exception that ended the build, or "none"
    \* ---- mathesar/utils/preview.py ----
    ppc,                    \* position of the get_preview_info call
    constraints,            \* Constraint rows of the metadata store
    templates,              \* preview_settings.template of every table
    show_fk_preview,        \* columns whose display_options['show_fk_preview'] is true
    fk_previews,            \* argument of get_preview_info
    restrict_columns,       \* argument of get_preview_info (top-level call)
    existing_columns,       \* argument of get_preview_info (top-level call)
    stack,                  \* frames of get_constrained_columns_by_referent_table
    result                  \* what the top-level get_preview_info returned

qvars == <<pc, initial_columns, transformations, idx, nested_join,
           sa_columns_to_select, alias_count, joins_built, sa_relation, error>>
pvars == <<ppc, constraints, templates, show_fk_preview, fk_previews,
           restrict_columns, existing_columns, stack, result>>
vars == <<qvars, pvars>>

\* Longest list of initial columns a query is built from.
MaxCols == 2

(***************************************************************************)
(*                        db/queries/base.py                               *)
(***************************************************************************)

\* The schema the queries are built over: three tables and their column names.
TableColumns ==
    [A |-> {"id", "b_id", "c_id"}, B |-> {"id", "c_id", "name"}, C |-> {"id", "name"}]

base_table == "A"

\* An SQLAlchemy column: alias = 0 is the table itself, alias = n > 0 is the
\* n-th anonymous alias of the table.
Col(t, n) == [table |-> t, alias |-> 0, name |-> n]

JoinParams(l, r) == [left_column |-> l, right_column |-> r]

left_table(jp) == jp.left_column.table

right_table(jp) == jp.right_column.table

flip(jp) == JoinParams(jp.right_column, jp.left_column)

\* jp_path is None or a list of JoinParams.
NoPath == [isNone |-> TRUE, hops |-> <<>>]
Path(hops) == [isNone |-> FALSE, hops |-> hops]

AB == JoinParams(Col("A", "b_id"), Col("B", "id"))
BC == JoinParams(Col("B", "c_id"), Col("C", "id"))
AC == JoinParams(Col("A", "c_id"), Col("C", "id"))

\* The (column, jp_path) pairs the callers ask for; the last five break the
\* contract of a join path in one way each.
ColumnRequests ==
    { [column |-> Col("A", "id"),   jp_path |-> NoPath],
      [column |-> Col("A", "b_id"), jp_path |-> NoPath],
      [column |-> Col("B", "name"), jp_path |-> Path(<<AB>>)],
      [column |-> Col("C", "name"), jp_path |-> Path(<<AB, BC>>)],
      [column |-> Col("C", "name"), jp_path |-> Path(<<AC>>)],
      [column |-> Col("B", "name"), jp_path |-> Path(<<>>)],
      [column |-> Col("C", "name"), jp_path |-> Path(<<AB, AC>>)],
      [column |-> Col("C", "name"), jp_path |-> Path(<<BC>>)],
      [column |-> Col("C", "name"), jp_path |-> Path(<<AB>>)],
      [column |-> Col("B", "c_id"), jp_path |-> Path(<<AC>>)] }

Aliases == {"x", "y"}

\* An InitialColumn as its constructor receives it.
InitialColumnArgs ==
    { [alias |-> a, column |-> r.column, jp_path |-> r.jp_path] :
        a \in Aliases, r \in ColumnRequests }
    \cup { [alias |-> "", column |-> Col("A", "id"), jp_path |-> NoPath] }

\* The transformation lists a query is given; None is the default.
NoTransformations == [isNone |-> TRUE, list |-> <<>>]
TransformationLists ==
    { NoTransformations }
    \cup { [isNone |-> FALSE, list |-> l] :
             l \in { <<>>, <<"t1">>, <<"t1", "t2">>, <<"t2", "t1">> } }

\* InitialColumn.__init__: the assertions of the constructor.  The alias is a
\* non-blank string; each hop is a JoinParams and the column an SAColumn, which
\* every value of InitialColumnArgs is.
InitialColumnAsserts(ic) == ic.alias # ""

is_base_column(ic) == ic.jp_path.isNone

NoneJoin == [isNone |-> TRUE, rightmost |-> [table |-> "", alias |-> 0], joins |-> <<>>]
NoColumn == [table |-> "", alias |-> 0, name |-> "", label |-> ""]

\* _access_column_on_aliased_relation: getattr(aliased_relation.c, name).
HasColumn(aliased_relation, sa_column) ==
    sa_column.name \in TableColumns[aliased_relation.table]

_access_column_on_aliased_relation(aliased_relation, sa_column) ==
    [table |-> aliased_relation.table, alias |-> aliased_relation.alias,
     name |-> sa_column.name]

\* The joins _nest_a_join builds for a path, innermost first: the loop walks
\* reversed(jp_path); the first step joins to a fresh alias of the right
\* table, every later step joins to the join built by the step before.
PathJoins(hops, rightmost_table_alias) ==
    [i \in 1..Len(hops) |->
        LET jp == hops[Len(hops) + 1 - i] IN
        [left_table |-> left_table(jp),
         left_column |-> jp.left_column,
         right_column |-> IF i = 1
                          THEN _access_column_on_aliased_relation(
                                   rightmost_table_alias, jp.right_column)
                          ELSE jp.right_column]]

\* _nest_a_join: the join tree and the column to select, or the AttributeError
\* of looking a column up on None or on a table that has no such column.  The
\* join tree that comes in is used only when the loop body never runs.
_nest_a_join(nj, ic, fresh) ==
    LET hops == ic.jp_path.hops
        alias == [table |-> right_table(hops[Len(hops)]), alias |-> fresh]
    IN  IF Len(hops) = 0
        THEN [nested_join |-> nj, col |-> NoColumn, built |-> 0,
              aliases |-> 0, error |-> "AttributeError"]
        ELSE [nested_join |-> [isNone |-> FALSE, rightmost |-> alias,
                               joins |-> PathJoins(hops, alias)],
              col |-> _access_column_on_aliased_relation(alias, ic.column)
                        @@ [label |-> ""],
              built |-> Len(hops),
              aliases |-> 1,
              error |-> IF HasColumn(alias, ic.column) THEN "none"
                        ELSE "AttributeError"]

\* Label with the labelling dropped: the column keeps its own name.
LabelByColumnName(col, alias) == [table |-> col.table, alias |-> col.alias,
                                  name |-> col.name, label |-> col.name]

\* col_to_select.label(initial_column.alias)
Label(col, alias) == [table |-> col.table, alias |-> col.alias,
                      name |-> col.name, label |-> alias]

\* _process_initial_column
_process_initial_column(ic, nj, fresh) ==
    IF is_base_column(ic)
    THEN [nested_join |-> nj, col |-> Label(ic.column, ic.alias), built |-> 0,
          aliases |-> 0, error |-> "none"]
    ELSE LET r == _nest_a_join(nj, ic, fresh)
         IN  [r EXCEPT !.col = Label(r.col, ic.alias)]

\* _apply_transformations
_apply_transformations(initial_relation, ts) == initial_relation

NoRelation == [built |-> FALSE, columns |-> <<>>, select_from |-> NoneJoin,
               table |-> "", applied |-> <<>>]

\* select(*sa_columns_to_select).select_from(select_target).cte()
InitialRelation(cols, nj) ==
    [built |-> TRUE, columns |-> cols, select_from |-> nj,
     table |-> IF nj.isNone THEN base_table ELSE "", applied |-> <<>>]

RECURSIVE SeqsUpTo(_, _)
SeqsUpTo(S, n) ==
    IF n = 0 THEN { <<>> }
    ELSE LET shorter == SeqsUpTo(S, n - 1)
         IN  shorter \cup { Append(s, x) : s \in shorter, x \in S }

InitQueryVars ==
    /\ pc = "init"
    /\ idx = 0
    /\ nested_join = NoneJoin
    /\ sa_columns_to_select = <<>>
    /\ alias_count = 0
    /\ joins_built = 0
    /\ sa_relation = NoRelation
    /\ error = "none"

\* The arguments of a DBQuery about to be constructed.
InitQuery ==
    /\ initial_columns \in SeqsUpTo(InitialColumnArgs, MaxCols)
    /\ transformations \in TransformationLists
    /\ InitQueryVars

\* InitialColumn.__init__ of every column, then DBQuery.__init__.
Construct ==
    /\ pc = "init"
    /\ IF \A i \in 1..Len(initial_columns) : InitialColumnAsserts(initial_columns[i])
       THEN pc' = "building" /\ error' = "none"
       ELSE pc' = "raised" /\ error' = "AssertionError"
    /\ UNCHANGED <<initial_columns, transformations, idx, nested_join,
                   sa_columns_to_select, alias_count, joins_built, sa_relation>>
    /\ UNCHANGED pvars

\* One iteration of the loop of _get_initial_relation.
ProcessInitialColumn ==
    /\ pc = "building"
    /\ idx < Len(initial_columns)
    /\ LET r == _process_initial_column(initial_columns[idx + 1], nested_join,
                                        alias_count + 1)
       IN  /\ joins_built' = joins_built + r.built
           /\ alias_count' = alias_count + r.aliases
           /\ IF r.error = "none"
              THEN /\ nested_join' = r.nested_join
                   /\ sa_columns_to_select' = Append(sa_columns_to_select, r.col)
                   /\ idx' = idx + 1
                   /\ UNCHANGED <<pc, error>>
              ELSE /\ pc' = "raised"
                   /\ error' = r.error
                   /\ UNCHANGED <<nested_join, sa_columns_to_select, idx>>
    /\ UNCHANGED <<initial_columns, transformations, sa_relation>>
    /\ UNCHANGED pvars

\* The end of _get_initial_relation and the rest of DBQuery.sa_relation.
BuildRelation ==
    /\ pc = "building"
    /\ idx = Len(initial_columns)
    /\ sa_relation' = _apply_transformations(
                          InitialRelation(sa_columns_to_select, nested_join),
                          transformations)
    /\ pc' = "done"
    /\ UNCHANGED <<initial_columns, transformations, idx, nested_join,
                   sa_columns_to_select, alias_count, joins_built, error>>
    /\ UNCHANGED pvars

(***************************************************************************)
(*                     mathesar/utils/preview.py                           *)
(***************************************************************************)

\* Deepest nesting of get_preview_info calls the model follows.
MaxDepth == 4

\* The metadata store: tables 1 (the referrer of the top-level call), 2 and 3,
\* and their columns; a column's table is the tens digit of its id.
Tables == {1, 2, 3}
Columns == {10, 11, 12, 20, 21, 22, 30, 31}
ColumnTable(c) == c \div 10

\* A Python value that is an int or a str: ty is its type, v its text as a
\* list of pieces ("11" is <<"11">>, "11__20" is <<"11", "__", "20">>).  Two
\* values are equal in Python only when type and text agree.
PyInt(n) == [ty |-> "int", v |-> <<ToString(n)>>]
PyStr(pieces) == [ty |-> "str", v |-> pieces]

\* f'{value}': the text of an int or a str.
Format(value) == value.v

\* A template is a list of tokens: literal text, or a placeholder "{text}".
Lit(t) == [kind |-> "lit", text |-> <<t>>]
Ph(pieces) == [kind |-> "ph", text |-> pieces]
PhId(n) == Ph(<<ToString(n)>>)

\* A Constraint row; only columns[0] and referent_columns[0] are ever read.
Constraint(ty, c, r) ==
    [table_id |-> ColumnTable(c), type |-> ty, column |-> c, referent_column |-> r]

FOREIGN_KEY == "foreignkey"

RECURSIVE Concat(_)
Concat(seqs) == IF seqs = <<>> THEN <<>> ELSE Head(seqs) \o Concat(Tail(seqs))

\* re.findall(r'\{(.*?)\}', preview_template): the placeholder texts, in order.
FindAll(template) ==
    LET phs == SelectSeq(template, LAMBDA tok : tok.kind = "ph")
    IN  [i \in 1..Len(phs) |-> PyStr(phs[i].text)]

\* Column.objects.filter(id__in=ids): the columns whose id is one of the ids
\* (the database compares the numbers, whatever the Python type).  The result
\* is a QuerySet, not None.
ColumnsWithIds(ids) ==
    [isNone |-> FALSE,
     cols |-> { c \in Columns : \E i \in 1..Len(ids) : ids[i].v = <<ToString(c)>> }]

\* template.replace('{' + text + '}', replacement)
Replace(template, text, replacement) ==
    Concat([i \in 1..Len(template) |->
              IF template[i].kind = "ph" /\ template[i].text = text
              THEN replacement
              ELSE <<template[i]>>])

\* "___".join(pieces)
RECURSIVE JoinTriple(_)
JoinTriple(parts) ==
    IF parts = <<>> THEN <<>>
    ELSE IF Len(parts) = 1 THEN parts[1]
    ELSE parts[1] \o <<"___">> \o JoinTriple(Tail(parts))

\* path_prefix with every hop but the last one forgotten.
LastHopPrefix(current_path) ==
    LET path == current_path[Len(current_path)]
    IN  <<ToString(path[1]), "__", ToString(path[2])>>

\* path_prefix = "___".join([f"{path[0]}__{path[1]}" for path in current_path])
path_prefix(current_path) ==
    JoinTriple([i \in 1..Len(current_path) |->
                  <<ToString(current_path[i][1]), "__", ToString(current_path[i][2])>>])

\* column_alias_name = f'{path_prefix}__col__{preview_data_column_id}'
column_alias_name(current_path, preview_data_column_id) ==
    path_prefix(current_path) \o <<"__col__">> \o Format(preview_data_column_id)

\* preview_info is a dict: key in dict, dict[key] = value (insertion ordered).
DictHas(d, key) == \E i \in 1..Len(d) : d[i].key = key

DictSet(d, key, value) ==
    IF DictHas(d, key)
    THEN [i \in 1..Len(d) |-> IF d[i].key = key THEN [key |-> key, value |-> value]
                              ELSE d[i]]
    ELSE Append(d, [key |-> key, value |-> value])

DictKeys(d) == { d[i].key : i \in 1..Len(d) }

\* The auto filter switched off: every foreign key passes.
EveryColumnPreviewEnabled(fk_constraint) == TRUE

\* _filter_preview_enabled_columns
_filter_preview_enabled_columns(fk_constraint) ==
    fk_constraint.column \in show_fk_preview

\* _get_filter_restricted_columns_fn(restricted_columns)(fk_constraint)
_filter_restricted_columns(restricted_columns, fk_constraint) ==
    fk_constraint.column \in restricted_columns.cols

\* bool(restrict_columns): None, an empty list and an empty QuerySet are false.
Truthy(restrict) == ~restrict.isNone /\ restrict.cols # {}

\* get_preview_info, lines 48-63: the foreign keys of the table that survive
\* the filters, in the order of the store.
FilteredFkConstraints(mode, referrer_table_pk, restrict) ==
    LET table_constraints ==
            SelectSeq(constraints, LAMBDA k : k.table_id = referrer_table_pk)
        fks == SelectSeq(table_constraints, LAMBDA k : k.type = FOREIGN_KEY)
        auto == IF mode = "auto"
                THEN SelectSeq(fks, _filter_preview_enabled_columns)
                ELSE fks
    IN  IF Truthy(restrict)
        THEN SelectSeq(auto, LAMBDA k : _filter_restricted_columns(restrict, k))
        ELSE auto

\* current_path with the new hop appended twice.
CurrentPathHopTwice(previous_path, fk_constraint) ==
    previous_path \o << <<fk_constraint.column, fk_constraint.referent_column>>,
                        <<fk_constraint.column, fk_constraint.referent_column>> >>

\* current_path = previous_path + [[constrained_column.id, referent_column.id]]
CurrentPath(previous_path, fk_constraint) ==
    Append(previous_path, <<fk_constraint.column, fk_constraint.referent_column>>)

\* A call of get_preview_info, entering get_constrained_columns_by_referent_table.
NewFrame(table, restrict, path, existing) ==
    [table |-> table,
     fks |-> FilteredFkConstraints(fk_previews, table, restrict),
     previous_path |-> path,
     exising_columns |-> existing,
     preview_info |-> <<>>,
     preview_columns |-> existing]

\* Lines 34-35: every key of the referent's preview_info is substituted.
RECURSIVE MergeTemplates(_, _)
MergeTemplates(preview_template, items) ==
    IF items = <<>> THEN preview_template
    ELSE MergeTemplates(
             Replace(preview_template, Format(Head(items).key),
                     Head(items).value.template),
             Tail(items))

\* Lines 37-42: the loop over preview_data_column_ids; acc is the template and
\* the column list so far.
RECURSIVE AliasColumns(_, _, _, _)
AliasColumns(acc, ids, referent_preview_info, current_path) ==
    IF ids = <<>> THEN acc
    ELSE LET id == Head(ids)
             name == column_alias_name(current_path, id)
             next == IF ~DictHas(referent_preview_info, id)
                     THEN [template |-> Replace(acc.template, Format(id), <<Ph(name)>>),
                           columns |-> Append(acc.columns,
                                              [id |-> id, alias |-> PyStr(name),
                                               jp_path |-> current_path])]
                     ELSE acc
         IN  AliasColumns(next, Tail(ids), referent_preview_info, current_path)

\* Lines 33-43 for the foreign key at the head of frame.fks, once the call
\* for its referent table has returned.
MergeReferentPreview(frame, referent_preview_info, referent_preview_columns) ==
    LET fk_constraint == Head(frame.fks)
        preview_template == templates[ColumnTable(fk_constraint.referent_column)]
        preview_data_column_ids == FindAll(preview_template)
        current_path == CurrentPath(frame.previous_path, fk_constraint)
        merged == MergeTemplates(preview_template, referent_preview_info)
        done == AliasColumns(
                    [template |-> merged,
                     columns |-> frame.preview_columns \o referent_preview_columns],
                    preview_data_column_ids, referent_preview_info, current_path)
    IN  [frame EXCEPT
            !.fks = Tail(@),
            !.preview_columns = done.columns,
            !.preview_info = DictSet(@, PyInt(fk_constraint.column),
                                     [template |-> done.template,
                                      path |-> current_path])]

\* The referrer table of the top-level call.
referrer_table_pk == 1

\* The constraint rows every store holds, and the ones a store may hold.
FixedConstraints == << Constraint("primary", 10, 10), Constraint(FOREIGN_KEY, 11, 20) >>
OptionalConstraints ==
    << Constraint(FOREIGN_KEY, 12, 30), Constraint(FOREIGN_KEY, 21, 30),
       Constraint(FOREIGN_KEY, 22, 10), Constraint(FOREIGN_KEY, 31, 30) >>

\* The preview templates a table may have.
TemplateChoices ==
    [t \in Tables |->
        CASE t = 1 -> { <<PhId(11)>>, <<PhId(12)>>, <<>> }
          [] t = 2 -> { <<PhId(21)>>,
                        <<PhId(20), Lit(": "), PhId(21), Lit(" "), PhId(22)>>,
                        <<PhId(21), PhId(21)>>,
                        <<>> }
          [] t = 3 -> { <<PhId(30)>>, <<PhId(31)>>, <<Lit("-")>> }]

\* fk_previews together with the columns flagged show_fk_preview.
ModeChoices ==
    { [mode |-> "explicit", shown |-> {11, 12, 21, 22, 31}],
      [mode |-> "auto", shown |-> {11, 12, 21, 22, 31}],
      [mode |-> "auto", shown |-> {11, 21}],
      [mode |-> "auto", shown |-> {12, 22}] }

\* restrict_columns of the top-level call: None, [] or a list of columns.
RestrictChoices ==
    { [isNone |-> TRUE, cols |-> {}], [isNone |-> FALSE, cols |-> {}],
      [isNone |-> FALSE, cols |-> {11}], [isNone |-> FALSE, cols |-> {10}] }

\* existing_columns of the top-level call: nothing, or the descriptor of
\* column 21 reached over the hop 11 -> 20.
CollectedDescriptor ==
    [id |-> PyStr(<<"21">>),
     alias |-> PyStr(column_alias_name(<<<<11, 20>>>>, PyStr(<<"21">>))),
     jp_path |-> <<<<11, 20>>>>]
ExistingChoices == { <<>>, <<CollectedDescriptor>> }

NoResult == [returned |-> FALSE, preview_info |-> <<>>, columns |-> <<>>]

InitPreviewVars ==
    /\ ppc = "idle"
    /\ stack = <<>>
    /\ result = NoResult

\* No get_preview_info call is made.
InitPreviewIdle ==
    /\ constraints = FixedConstraints
    /\ templates = [t \in Tables |-> <<>>]
    /\ show_fk_preview = {}
    /\ fk_previews = "explicit"
    /\ restrict_columns = [isNone |-> TRUE, cols |-> {}]
    /\ existing_columns = <<>>
    /\ InitPreviewVars

\* A metadata store and the arguments of a get_preview_info call about to be made.
InitPreview ==
    /\ \E keep \in SUBSET (1..Len(OptionalConstraints)) :
          constraints = FixedConstraints
                          \o SelectSeq(OptionalConstraints,
                                       LAMBDA k : \E i \in keep : OptionalConstraints[i] = k)
    /\ templates \in [Tables -> UNION { TemplateChoices[t] : t \in Tables }]
    /\ \A t \in Tables : templates[t] \in TemplateChoices[t]
    /\ \E m \in ModeChoices : fk_previews = m.mode /\ show_fk_preview = m.shown
    /\ restrict_columns \in RestrictChoices
    /\ existing_columns \in ExistingChoices
    /\ InitPreviewVars

\* No DBQuery is constructed.
InitQueryIdle ==
    /\ initial_columns = <<>>
    /\ transformations = NoTransformations
    /\ InitQueryVars

UnchangedStore ==
    UNCHANGED <<constraints, templates, show_fk_preview, fk_previews,
                restrict_columns, existing_columns>>

\* The top-level call of get_preview_info (lines 47-70, up to the loop).
Call ==
    /\ ppc = "idle"
    /\ stack' = << NewFrame(referrer_table_pk, restrict_columns, <<>>, existing_columns) >>
    /\ ppc' = "running"
    /\ UNCHANGED result
    /\ UnchangedStore
    /\ UNCHANGED qvars

\* Lines 21-32 for the next foreign key of the innermost call, and lines
\* 47-70 of the call of get_preview_info it makes for the referent table.
Descend ==
    /\ ppc = "running"
    /\ Len(stack) < MaxDepth
    /\ LET frame == stack[Len(stack)] IN
       /\ frame.fks # <<>>
       /\ LET fk_constraint == Head(frame.fks)
              referent_table == ColumnTable(fk_constraint.referent_column)
              preview_data_columns == ColumnsWithIds(FindAll(templates[referent_table]))
          IN  stack' = Append(stack,
                           NewFrame(referent_table, preview_data_columns,
                                    CurrentPath(frame.previous_path, fk_constraint),
                                    frame.exising_columns))
    /\ UNCHANGED <<ppc, result>>
    /\ UnchangedStore
    /\ UNCHANGED qvars

\* The innermost call returns (line 44, line 71) and its caller runs lines
\* 33-43 for the foreign key it was working on.
Return ==
    /\ ppc = "running"
    /\ Len(stack) >= 2
    /\ LET frame == stack[Len(stack)]
           caller == stack[Len(stack) - 1]
       IN  /\ frame.fks = <<>>
           /\ stack' = [SubSeq(stack, 1, Len(stack) - 1) EXCEPT
                           ![Len(stack) - 1] =
                               MergeReferentPreview(caller, frame.preview_info,
                                                    frame.preview_columns)]
    /\ UNCHANGED <<ppc, result>>
    /\ UnchangedStore
    /\ UNCHANGED qvars

\* The top-level call returns preview_info and columns.
Finish ==
    /\ ppc = "running"
    /\ Len(stack) = 1
    /\ stack[1].fks = <<>>
    /\ result' = [returned |-> TRUE, preview_info |-> stack[1].preview_info,
                  columns |-> stack[1].preview_columns]
    /\ stack' = <<>>
    /\ ppc' = "done"
    /\ UnchangedStore
    /\ UNCHANGED qvars

InitQ == InitQuery /\ InitPreviewIdle

NextQuery == Construct \/ ProcessInitialColumn \/ BuildRelation

SpecQuery == InitQ /\ [][NextQuery]_vars

InitP == InitPreview /\ InitQueryIdle

NextPreview == Call \/ Descend \/ Return \/ Finish

SpecPreview == InitP /\ [][NextPreview]_vars

(***************************************************************************)
(*                  Properties of db/queries/base.py                       *)
(***************************************************************************)

DistinctAliases ==
    \A i, j \in 1..Len(initial_columns) :
        initial_columns[i].alias = initial_columns[j].alias => i = j

\* The contract of a join path (data model of InitialColumn): non-empty,
\* starting at the base table, consecutive hops sharing a table, ending at the
\* table that owns the column.
WellFormedPath(ic) ==
    LET hops == ic.jp_path.hops IN
    /\ Len(hops) > 0
    /\ left_table(hops[1]) = base_table
    /\ \A i \in 1..(Len(hops) - 1) : right_table(hops[i]) = left_table(hops[i + 1])
    /\ right_table(hops[Len(hops)]) = ic.column.table

Malformed(ic) == ~is_base_column(ic) /\ ~WellFormedPath(ic)

\* C1: a built relation has exactly one output column per InitialColumn,
\* labeled with its alias and reading its column, in input order (zero output
\* columns for the empty list), whenever the aliases are pairwise distinct;
\* and a build raises only over a blank alias or a malformed join path.
OutputColumnsFollowInitialColumns_C1 ==
    /\ (pc = "done" /\ DistinctAliases) =>
          /\ sa_relation.built
          /\ Len(sa_relation.columns) = Len(initial_columns)
          /\ \A i \in 1..Len(initial_columns) :
                /\ sa_relation.columns[i].label = initial_columns[i].alias
                /\ sa_relation.columns[i].name = initial_columns[i].column.name
    /\ pc = "raised" =>
          \E i \in 1..Len(initial_columns) :
              Malformed(initial_columns[i]) \/ initial_columns[i].alias = ""

\* A relation built from a base column followed by a joined column.
MixedColumnsBuilt_C1 ==
    /\ pc = "done"
    /\ DistinctAliases
    /\ Len(initial_columns) = 2
    /\ is_base_column(initial_columns[1])
    /\ ~is_base_column(initial_columns[2])
    /\ sa_relation.columns[2].alias > 0

\* The tables (plain or aliased) a join tree joins.
JoinTreeTables(nj) ==
    IF nj.isNone THEN {}
    ELSE { nj.rightmost }
         \cup { [table |-> nj.joins[i].left_table, alias |-> 0] :
                  i \in 1..Len(nj.joins) }

\* The join conditions of a join tree.
JoinTreeConditions(nj) ==
    { <<nj.joins[i].left_column, nj.joins[i].right_column>> : i \in 1..Len(nj.joins) }

\* C2: joins accumulate across columns: the join tree holds, for every
\* processed InitialColumn with a join path (well-formed, aliases distinct),
\* the aliased rightmost table its column is read from and the conditions of
\* its path.
JoinsAccumulate_C2 ==
    (pc \in {"building", "done"}
        /\ DistinctAliases
        /\ \A i \in 1..Len(initial_columns) : ~Malformed(initial_columns[i])) =>
        \A i \in 1..idx :
            ~is_base_column(initial_columns[i]) =>
                LET alias == [table |-> sa_columns_to_select[i].table,
                              alias |-> sa_columns_to_select[i].alias]
                    js == PathJoins(initial_columns[i].jp_path.hops, alias)
                IN  /\ alias \in JoinTreeTables(nested_join)
                    /\ \A k \in 1..Len(js) :
                          <<js[k].left_column, js[k].right_column>>
                              \in JoinTreeConditions(nested_join)

\* What a transformation makes of a relation: the transformations are
\* external, a relation records which ones it went through.
Transform(t, rel) == [rel EXCEPT !.applied = Append(@, t)]

RECURSIVE ApplyInOrder(_, _)
ApplyInOrder(ts, rel) ==
    IF ts = <<>> THEN rel
    ELSE ApplyInOrder(Tail(ts), Transform(Head(ts), rel))

\* C3: the final relation is tn(...t1(initial relation)...), and the initial
\* relation itself for an empty or absent list.
TransformationsAppliedInOrder_C3 ==
    pc = "done" =>
        sa_relation = ApplyInOrder(transformations.list,
                                   InitialRelation(sa_columns_to_select, nested_join))

\* C4: a query with a malformed join path never gets past validation: no join
\* is constructed, no relation is built, and the error is a validation error.
MalformedPathFailsFast_C4 ==
    (pc # "init" /\ \E i \in 1..Len(initial_columns) : Malformed(initial_columns[i])) =>
        /\ joins_built = 0
        /\ pc # "done"
        /\ pc = "raised" => error = "AssertionError"

(***************************************************************************)
(*               Properties of mathesar/utils/preview.py                   *)
(***************************************************************************)

Range(seq) == { seq[i] : i \in 1..Len(seq) }

\* The preview_info entries and column descriptors recorded so far, by the
\* calls still running and by the call that has returned.
RecordedEntries ==
    UNION { Range(stack[i].preview_info) : i \in 1..Len(stack) }
        \cup Range(result.preview_info)

RecordedColumns ==
    (UNION { Range(stack[i].preview_columns) : i \in 1..Len(stack) }
        \cup Range(result.columns)) \ Range(existing_columns)

\* The foreign keys of the referrer table that the mode and the restriction
\* of the top-level call let through.
ExpectedSurfaced ==
    { k.column : k \in { c \in Range(constraints) :
                           /\ c.table_id = referrer_table_pk
                           /\ c.type = FOREIGN_KEY
                           /\ fk_previews = "auto" => c.column \in show_fk_preview
                           /\ ~restrict_columns.isNone => c.column \in restrict_columns.cols } }

\* C5: the keys of preview_info are the constrained columns of the referrer
\* table's foreign keys, narrowed by the auto filter and then by the
\* restriction (no restriction, or a non-empty list of columns).
SurfacedForeignKeys_C5 ==
    (ppc = "done" /\ (restrict_columns.isNone \/ restrict_columns.cols # {})) =>
        DictKeys(result.preview_info) = { PyInt(c) : c \in ExpectedSurfaced }

\* Auto mode and a restriction both narrowed the foreign keys of the table.
BothFiltersNarrowed_C5 ==
    /\ ppc = "done"
    /\ fk_previews = "auto"
    /\ restrict_columns = [isNone |-> FALSE, cols |-> {11}]
    /\ show_fk_preview = {11, 21}
    /\ \E k \in Range(constraints) : k.column = 12
    /\ DictKeys(result.preview_info) = { PyInt(11) }

\* C6: the returned descriptor list holds no two descriptors with the same
\* (id, jp_path), whatever was already collected.
NoDuplicateDescriptors_C6 ==
    ppc = "done" =>
        \A i, j \in 1..Len(result.columns) :
            (result.columns[i].id = result.columns[j].id
                /\ result.columns[i].jp_path = result.columns[j].jp_path) => i = j

\* The column ids a table's template names, as the recursion restricts to them.
TemplateColumns(t) == ColumnsWithIds(FindAll(templates[t]))

\* The foreign keys a recursive call on table t follows.
FollowedFrom(t) == Range(FilteredFkConstraints(fk_previews, t, TemplateColumns(t)))

ExpectedHop(hop) == <<ToString(hop[1]), "__", ToString(hop[2])>>

\* <constrained id>__<referent id> of every hop of the path, joined by ___.
RECURSIVE ExpectedPrefix(_)
ExpectedPrefix(path) ==
    IF Len(path) = 1 THEN ExpectedHop(path[1])
    ELSE ExpectedPrefix(SubSeq(path, 1, Len(path) - 1))
            \o <<"___">> \o ExpectedHop(path[Len(path)])

\* The flattened template of table t reached over path: a placeholder that is
\* a followed foreign key becomes the flattened template of its referent
\* table, any other placeholder {y} becomes {<prefix>__col__<y>}.
RECURSIVE ExpectedTemplate(_, _, _)
ExpectedTemplate(t, path, fuel) ==
    Concat([i \in 1..Len(templates[t]) |->
        LET tok == templates[t][i]
            nested == { k \in FollowedFrom(t) : <<ToString(k.column)>> = tok.text }
        IN  IF tok.kind = "lit" THEN <<tok>>
            ELSE IF nested # {} /\ fuel > 0
            THEN LET k == CHOOSE k \in nested : TRUE
                 IN  ExpectedTemplate(ColumnTable(k.referent_column),
                                      Append(path, <<k.column, k.referent_column>>),
                                      fuel - 1)
            ELSE <<Ph(ExpectedPrefix(path) \o <<"__col__">> \o tok.text)>>])

\* C7: the template recorded for a constrained column is the referent
\* table's template with every nested preview flattened in and every leaf
\* placeholder prefixed with the full path; no {columnId} placeholder is left.
NestedPreviewsFlattened_C7 ==
    \A e \in RecordedEntries :
        LET last == e.value.path[Len(e.value.path)]
        IN  /\ e.value.template =
                  ExpectedTemplate(ColumnTable(last[2]), e.value.path, MaxDepth)
            /\ \A i \in 1..Len(e.value.template) :
                  e.value.template[i].kind = "ph" => Len(e.value.template[i].text) > 1

\* Table 2's template {21} was flattened into table 3's {30}, two hops deep.
TwoLevelTemplateFlattened_C7 ==
    /\ ppc = "done"
    /\ templates[2] = <<PhId(21)>>
    /\ \E e \in Range(result.preview_info) :
          /\ e.key = PyInt(11)
          /\ e.value.template =
                << Ph(<<"11", "__", "20", "___", "21", "__", "30", "__col__", "30">>) >>

\* C8: every recursive call follows only foreign keys whose constrained
\* column is named by a placeholder of the referent table's template.
RecursionRestrictedToTemplate_C8 ==
    \A i \in 2..Len(stack) :
        \A k \in Range(stack[i].fks) :
            \E id \in Range(FindAll(templates[stack[i].table])) :
                id.v = <<ToString(k.column)>>

\* C9: a placeholder column that the recursion resolved as a foreign key gets
\* no descriptor of its own at the path of the table it belongs to.
OnlyLeafColumnsGetDescriptors_C9 ==
    \A d \in RecordedColumns :
        LET last == d.jp_path[Len(d.jp_path)]
        IN  ~ \E k \in FollowedFrom(ColumnTable(last[2])) :
                  d.id.v = <<ToString(k.column)>>

\* The foreign keys followed from a node of the call graph: the top-level
\* call uses its own restriction, a recursive call the template's columns.
FollowedAt(t, top) ==
    IF top THEN Range(FilteredFkConstraints(fk_previews, t, restrict_columns))
    ELSE FollowedFrom(t)

\* The longest chain of followed foreign keys from a node, counted up to fuel.
RECURSIVE ChainLength(_, _, _)
ChainLength(t, top, fuel) ==
    IF fuel = 0 \/ FollowedAt(t, top) = {} THEN 0
    ELSE LET lens == { 1 + ChainLength(ColumnTable(k.referent_column), FALSE, fuel - 1) :
                         k \in FollowedAt(t, top) }
         IN  CHOOSE n \in lens : \A m \in lens : m <= n

\* A chain through more nodes than there are (the top-level call and one per
\* table) comes back to a table.
NodeCount == Cardinality(Tables) + 1
LongestChain == ChainLength(referrer_table_pk, TRUE, NodeCount)
FollowedGraphAcyclic == LongestChain < NodeCount

RecordedPathsBounded ==
    FollowedGraphAcyclic =>
        /\ \A e \in RecordedEntries : Len(e.value.path) <= LongestChain
        /\ \A d \in RecordedColumns : Len(d.jp_path) <= LongestChain

CycleNeverReturns ==
    ~FollowedGraphAcyclic =>
        /\ ppc # "done"
        /\ \A i, j \in 1..Len(stack) :
              i < j => Len(stack[i].previous_path) < Len(stack[j].previous_path)

\* The steps a call on table t takes from its entry to its return, and the
\* steps a list of foreign keys still costs the call that loops over it.
RECURSIVE StepsOfCall(_, _), StepsOfFks(_, _)
StepsOfCall(t, fuel) ==
    IF fuel = 0 THEN 0
    ELSE 1 + StepsOfFks(FilteredFkConstraints(fk_previews, t, TemplateColumns(t)),
                        fuel - 1)
StepsOfFks(fks, fuel) ==
    IF fks = <<>> THEN 0
    ELSE 1 + StepsOfCall(ColumnTable(Head(fks).referent_column), fuel)
           + StepsOfFks(Tail(fks), fuel)

RECURSIVE StepsOfStack(_, _)
StepsOfStack(frames, i) ==
    IF i > Len(frames) THEN 0
    ELSE 1 + StepsOfFks(IF i < Len(frames) THEN Tail(frames[i].fks) ELSE frames[i].fks,
                        NodeCount)
           + StepsOfStack(frames, i + 1)

\* The steps left until the top-level call has returned, at position p of the
\* call with the given frames.
StepsLeft(p, frames) ==
    CASE p = "idle" ->
            2 + StepsOfFks(FilteredFkConstraints(fk_previews, referrer_table_pk,
                                                 restrict_columns), NodeCount)
      [] p = "running" -> StepsOfStack(frames, 1)
      [] p = "done" -> 0

RemainingSteps == StepsLeft(ppc, stack)

\* The guards of Call, Descend, Return and Finish: some step can be taken.
NextStepPossible ==
    \/ ppc = "idle"
    \/ /\ ppc = "running"
       /\ Len(stack) >= 1
       /\ (stack[Len(stack)].fks = <<>> \/ Len(stack) < MaxDepth)

\* Over an acyclic graph a call that has not returned can take its next step.
AcyclicCallNeverStuck ==
    FollowedGraphAcyclic =>
        /\ ppc # "done" => NextStepPossible
        /\ ppc # "done" => RemainingSteps > 0

\* Over a cyclic graph nothing but the depth the model follows stops the calls.
CyclicCallStopsOnlyAtMaxDepth ==
    ~FollowedGraphAcyclic => (NextStepPossible \/ Len(stack) = MaxDepth)

\* C10: over an acyclic graph of followed foreign keys the call returns (it
\* is never stuck and every step brings the return one step closer) and no
\* recorded path is longer than the longest chain; over a cyclic one the
\* calls nest ever deeper with a growing path and the call never returns.
TerminatesIffAcyclic_C10 ==
    /\ [](RecordedPathsBounded /\ CycleNeverReturns)
    /\ [](AcyclicCallNeverStuck /\ CyclicCallStopsOnlyAtMaxDepth)
    /\ [][FollowedGraphAcyclic => StepsLeft(ppc', stack') = RemainingSteps - 1]_vars

\* A call that returned after recording a path of two hops, the longest chain.
ReturnedWithLongestPath_C10 ==
    /\ ppc = "done"
    /\ LongestChain >= 2
    /\ \E d \in RecordedColumns : Len(d.jp_path) = LongestChain

====
